---- MODULE Spec2Model ----
(***************************************************************************)
(* Model of Sprite2Beads.py: the BeadColor distance metrics and caches,   *)
(* BeadPalette.add / get_closest, and the per-pixel flow of main().       *)
(* Distances are kept exact: a squared distance is a rational n/d whose   *)
(* numerator and denominator are non-negative big naturals (sequences of  *)
(* base-10000 limbs, least significant first, no trailing zero limb).     *)
(***************************************************************************)
EXTENDS Integers, Naturals, Sequences, FiniteSets, TLC

VARIABLES palette, lastOp, pa, pb, pres, mpc, mPal, mTag, mImage, mPos, mImageWork, mErr

vars == <<palette, lastOp, pa, pb, pres, mpc, mPal, mTag, mImage, mPos, mImageWork, mErr>>

(* ---------------- big naturals ---------------- *)

Base == 10^4

RECURSIVE BNat(_)
BNat(n) == IF n = 0 THEN <<>> ELSE <<n % Base>> \o BNat(n \div Base)

RECURSIVE BCarry(_, _, _)
BCarry(raw, i, c) ==
  IF i > Len(raw)
  THEN IF c = 0 THEN <<>> ELSE <<c % Base>> \o BCarry(raw, i, c \div Base)
  ELSE LET s == raw[i] + c IN <<s % Base>> \o BCarry(raw, i + 1, s \div Base)

RECURSIVE BTrim(_)
BTrim(x) == IF x = <<>> THEN x ELSE IF x[Len(x)] = 0 THEN BTrim(SubSeq(x, 1, Len(x) - 1)) ELSE x

Limb(x, i) == IF i <= Len(x) THEN x[i] ELSE 0

BAdd(x, y) ==
  LET n == IF Len(x) > Len(y) THEN Len(x) ELSE Len(y)
  IN BTrim(BCarry([i \in 1..n |-> Limb(x, i) + Limb(y, i)], 1, 0))

RECURSIVE ConvSum(_, _, _, _)
ConvSum(x, y, k, i) ==
  IF i > Len(x) \/ i > k THEN 0
  ELSE (IF k + 1 - i <= Len(y) THEN x[i] * y[k + 1 - i] ELSE 0) + ConvSum(x, y, k, i + 1)

BMul(x, y) ==
  IF x = <<>> \/ y = <<>> THEN <<>>
  ELSE BTrim(BCarry([k \in 1..(Len(x) + Len(y) - 1) |-> ConvSum(x, y, k, 1)], 1, 0))

RECURSIVE BLessFrom(_, _, _)
BLessFrom(x, y, i) ==
  IF i = 0 THEN FALSE
  ELSE IF x[i] # y[i] THEN x[i] < y[i] ELSE BLessFrom(x, y, i - 1)

BLess(x, y) ==
  IF Len(x) # Len(y) THEN Len(x) < Len(y) ELSE BLessFrom(x, y, Len(x))

(* x - y for x >= y *)
RECURSIVE BBorrow(_, _, _, _)
BBorrow(x, y, i, c) ==
  IF i > Len(x) THEN <<>>
  ELSE LET s == x[i] - Limb(y, i) - c
       IN IF s < 0 THEN <<s + Base>> \o BBorrow(x, y, i + 1, 1)
          ELSE <<s>> \o BBorrow(x, y, i + 1, 0)
BSub(x, y) == BTrim(BBorrow(x, y, 1, 0))

Abs(n) == IF n < 0 THEN -n ELSE n
Min(m, n) == IF m < n THEN m ELSE n
Max3(a, b, c) == IF a >= b /\ a >= c THEN a ELSE IF b >= c THEN b ELSE c
Min3(a, b, c) == IF a <= b /\ a <= c THEN a ELSE IF b <= c THEN b ELSE c

BSq(n) == BMul(BNat(Abs(n)), BNat(Abs(n)))

(* a squared distance n/d *)
Rat(n, d) == [n |-> n, d |-> d]
RatLess(x, y) == BLess(BMul(x.n, y.d), BMul(y.n, x.d))
RatZero(x) == x.n = <<>>

(* x and y agree to a relative 10^-10: closer than float rounding can tell *)
NearTie(x, y) ==
  LET a == BMul(x.n, y.d)
      b == BMul(y.n, x.d)
      hi == IF BLess(a, b) THEN b ELSE a
      lo == IF BLess(a, b) THEN a ELSE b
  IN ~BLess(hi, BMul(BSub(hi, lo), BMul(BNat(100000), BNat(100000))))

(* ---------------- BeadColor conversions ---------------- *)

(* __rgb2yuv: y scaled by 1000, u and v scaled by 10^6 *)
RGB2YUV(rgb) ==
  LET y == 299 * rgb[1] + 587 * rgb[2] + 114 * rgb[3]
  IN [y |-> y, u |-> 492 * (1000 * rgb[3] - y), v |-> 877 * (1000 * rgb[1] - y)]

(* __rgb2hsv via colorsys.rgb_to_hsv: h = hn/hd degrees, s = sn/sd, v = vn/255 *)
RGB2HSV(rgb) ==
  LET r == rgb[1]  g == rgb[2]  b == rgb[3]
      maxc == Max3(r, g, b)
      minc == Min3(r, g, b)
      rangec == maxc - minc
      k == IF r = maxc THEN 0 ELSE IF g = maxc THEN 2 ELSE 4
      num == IF r = maxc THEN g - b ELSE IF g = maxc THEN b - r ELSE r - g
  IN IF minc = maxc
     THEN [hn |-> 0, hd |-> 1, sn |-> 0, sd |-> 1, vn |-> maxc]
     ELSE [hn |-> (60 * (k * rangec + num)) % (360 * rangec), hd |-> rangec,
           sn |-> rangec, sd |-> maxc, vn |-> maxc]

(* ---------------- BeadColor distances (squared) ---------------- *)

(* __distance_rgb with the true mean rmean = (r1 + r2) / 2 *)
DistRGBMean(rgb1, rgb2) ==
  LET r1 == rgb1[1]  g1 == rgb1[2]  b1 == rgb1[3]
      r2 == rgb2[1]  g2 == rgb2[2]  b2 == rgb2[3]
      dr == (r1 - r2) * (r1 - r2)
      dg == (g1 - g2) * (g1 - g2)
      db == (b1 - b2) * (b1 - b2)
  IN Rat(BNat((1024 + r1 + r2) * dr + 2048 * dg + (1534 - r1 - r2) * db), BNat(512))

(* __distance_rgb with the blue weight (2 + rmean/256) *)
DistRGBBlue(rgb1, rgb2) ==
  LET r1 == rgb1[1]  g1 == rgb1[2]  b1 == rgb1[3]
      r2 == rgb2[1]  g2 == rgb2[2]  b2 == rgb2[3]
      dr == (r1 - r2) * (r1 - r2)
      dg == (g1 - g2) * (g1 - g2)
      db == (b1 - b2) * (b1 - b2)
  IN Rat(BNat((1024 + 2 * r1 + r2) * dr + 2048 * dg + (1024 + 2 * r1 + r2) * db), BNat(512))

(* __distance_rgb: squared distance times 512 *)
DistRGB(rgb1, rgb2) ==
  LET r1 == rgb1[1]  g1 == rgb1[2]  b1 == rgb1[3]
      r2 == rgb2[1]  g2 == rgb2[2]  b2 == rgb2[3]
      dr == (r1 - r2) * (r1 - r2)
      dg == (g1 - g2) * (g1 - g2)
      db == (b1 - b2) * (b1 - b2)
  IN Rat(BNat((1024 + 2 * r1 + r2) * dr + 2048 * dg + (1534 - 2 * r1 - r2) * db), BNat(512))

(* __distance_yuv body, from the entry's yuv and the query's yuv *)
DistYUVOf(yuv1, yuv2) ==
  Rat(BAdd(BMul(BNat(1000000), BSq(yuv1.y - yuv2.y)),
           BAdd(BSq(yuv1.u - yuv2.u), BSq(yuv1.v - yuv2.v))),
      BMul(BNat(1000000), BNat(1000000)))

(* hue term taking max(|h2-h1|, 360-|h2-h1|) *)
HueDiffNumMax(h1, h2) ==
  LET dH == Abs(h2.hn * h1.hd - h1.hn * h2.hd)
  IN IF dH > 360 * h1.hd * h2.hd - dH THEN dH ELSE 360 * h1.hd * h2.hd - dH

(* hue term of __distance_hsv: dh = dhn / dhd *)
HueDiffNum(h1, h2) ==
  LET dH == Abs(h2.hn * h1.hd - h1.hn * h2.hd)
  IN Min(dH, 360 * h1.hd * h2.hd - dH)
HueDiffDen(h1, h2) == 180 * h1.hd * h2.hd

(* __distance_hsv body, from the entry's hsv and the query's hsv *)
DistHSVOf(h1, h2) ==
  LET dhN == BSq(HueDiffNum(h1, h2))
      dhD == BSq(HueDiffDen(h1, h2))
      dsN == BSq(h2.sn * h1.sd - h1.sn * h2.sd)
      dsD == BSq(h1.sd * h2.sd)
      dvN == BSq(h2.vn - h1.vn)
      dvD == BSq(255)
  IN Rat(BAdd(BMul(dhN, BMul(dsD, dvD)), BAdd(BMul(dsN, BMul(dhD, dvD)), BMul(dvN, BMul(dhD, dsD)))),
         BMul(dhD, BMul(dsD, dvD)))

(* ---------------- BeadColor ---------------- *)

(* Python None, and a raised ValueError *)
None == [none |-> TRUE]
ValueError == [err |-> "ValueError"]

(* match color_space.upper() over the tags the model feeds in *)
Upper(tag) ==
  CASE tag = "RGB" -> "RGB"
    [] tag = "rgb" -> "RGB"
    [] tag = "YUV" -> "YUV"
    [] tag = "yuv" -> "YUV"
    [] tag = "HSV" -> "HSV"
    [] tag = "Hsv" -> "HSV"
    [] tag = "hsv" -> "HSV"
    [] tag = "XYZ" -> "XYZ"
    [] tag = "xyz" -> "XYZ"

ValidTag(tag) == Upper(tag) \in {"RGB", "YUV", "HSV"}

BeadColor(name, rgb) == [name |-> name, rgb |-> rgb, yuv |-> None, hsv |-> None]

(* get_distance caching the query's coordinates instead of the entry's *)
GetDistanceResQ(e, tag, q) ==
  CASE Upper(tag) = "RGB" ->
         [entry |-> e, res |-> DistRGB(e.rgb, q)]
    [] Upper(tag) = "YUV" ->
         LET e2 == IF e.yuv = None THEN [e EXCEPT !.yuv = RGB2YUV(q)] ELSE e
         IN [entry |-> e2, res |-> DistYUVOf(e2.yuv, RGB2YUV(q))]
    [] Upper(tag) = "HSV" ->
         LET e2 == IF e.hsv = None THEN [e EXCEPT !.hsv = RGB2HSV(q)] ELSE e
         IN [entry |-> e2, res |-> DistHSVOf(e2.hsv, RGB2HSV(q))]
    [] OTHER -> [entry |-> e, res |-> ValueError]

(* get_distance: the entry after the call (caches) and the result *)
GetDistanceRes(e, tag, q) ==
  CASE Upper(tag) = "RGB" ->
         [entry |-> e, res |-> DistRGB(e.rgb, q)]
    [] Upper(tag) = "YUV" ->
         LET e2 == IF e.yuv = None THEN [e EXCEPT !.yuv = RGB2YUV(e.rgb)] ELSE e
         IN [entry |-> e2, res |-> DistYUVOf(e2.yuv, RGB2YUV(q))]
    [] Upper(tag) = "HSV" ->
         LET e2 == IF e.hsv = None THEN [e EXCEPT !.hsv = RGB2HSV(e.rgb)] ELSE e
         IN [entry |-> e2, res |-> DistHSVOf(e2.hsv, RGB2HSV(q))]
    [] OTHER -> [entry |-> e, res |-> ValueError]

(* get_textcolor with >= *)
GetTextColorGE(rgb) == IF rgb[1] + rgb[2] + rgb[3] >= 128 * 3 THEN "black" ELSE "white"

(* get_textcolor *)
GetTextColor(rgb) == IF rgb[1] + rgb[2] + rgb[3] > 128 * 3 THEN "black" ELSE "white"

(* ---------------- BeadPalette.get_closest ---------------- *)

(* float('inf') *)
Inf == [inf |-> TRUE]

(* `distance < min_distance` (line 84). Distances are exact here, the     *)
(* code's are floats. RGB distances are exact dyadic values, so there the  *)
(* exact order is the float order. YUV or HSV distances that are equal or  *)
(* agree to a relative 10^-10 may round to any order or to equal floats:   *)
(* the float distance is a function of the entry's rgb, so the rounding is *)
(* a key fl[rgb] that orders such near-tied colors (equal keys: equal      *)
(* floats).                                                                *)
FloatLess(tag, d, minD, fd, fmin) ==
  IF Upper(tag) # "RGB" /\ NearTie(d, minD) THEN fd < fmin ELSE RatLess(d, minD)

(* the loop with `distance <= min_distance` *)
RECURSIVE ClosestLoopLE(_, _, _, _, _, _, _)
ClosestLoopLE(pal, tag, q, i, minD, best, fl) ==
  IF i > Len(pal) THEN [pal |-> pal, res |-> IF best = 0 THEN None ELSE [best |-> best]]
  ELSE LET r == GetDistanceRes(pal[i], tag, q)
           pal2 == [pal EXCEPT ![i] = r.entry]
       IN IF r.res = ValueError THEN [pal |-> pal2, res |-> r.res]
          ELSE IF minD = Inf \/ ~FloatLess(tag, minD, r.res, fl[pal[best].rgb], fl[pal[i].rgb])
               THEN ClosestLoopLE(pal2, tag, q, i + 1, r.res, i, fl)
               ELSE ClosestLoopLE(pal2, tag, q, i + 1, minD, best, fl)

(* the loop with `min_distance = distance` outside the if *)
RECURSIVE ClosestLoopMisIndent(_, _, _, _, _, _, _)
ClosestLoopMisIndent(pal, tag, q, i, minD, best, fl) ==
  IF i > Len(pal) THEN [pal |-> pal, res |-> IF best = 0 THEN None ELSE [best |-> best]]
  ELSE LET r == GetDistanceRes(pal[i], tag, q)
           pal2 == [pal EXCEPT ![i] = r.entry]
           prev == IF best = 0 THEN i ELSE i - 1
       IN IF r.res = ValueError THEN [pal |-> pal2, res |-> r.res]
          ELSE IF minD = Inf \/ FloatLess(tag, r.res, minD, fl[pal[i].rgb], fl[pal[prev].rgb])
               THEN ClosestLoopMisIndent(pal2, tag, q, i + 1, r.res, i, fl)
               ELSE ClosestLoopMisIndent(pal2, tag, q, i + 1, r.res, best, fl)

(* the for loop; best = 0 is None; fl is the float rounding of exact ties *)
RECURSIVE ClosestLoop(_, _, _, _, _, _, _)
ClosestLoop(pal, tag, q, i, minD, best, fl) ==
  IF i > Len(pal) THEN [pal |-> pal, res |-> IF best = 0 THEN None ELSE [best |-> best]]
  ELSE LET r == GetDistanceRes(pal[i], tag, q)
           pal2 == [pal EXCEPT ![i] = r.entry]
       IN IF r.res = ValueError THEN [pal |-> pal2, res |-> r.res]
          ELSE IF minD = Inf \/ FloatLess(tag, r.res, minD, fl[pal[i].rgb], fl[pal[best].rgb])
               THEN ClosestLoop(pal2, tag, q, i + 1, r.res, i, fl)
               ELSE ClosestLoop(pal2, tag, q, i + 1, minD, best, fl)

(* the colors of a palette, and the possible roundings of their ties *)
PalColors(pal) == {pal[i].rgb : i \in 1..Len(pal)}
Roundings(pal, tag) ==
  IF Upper(tag) \in {"YUV", "HSV"} /\ PalColors(pal) # {}
  THEN {fl \in [PalColors(pal) -> 0..(Cardinality(PalColors(pal)) - 1)] :
          \E c \in PalColors(pal) : fl[c] = 0}
  ELSE {[c \in PalColors(pal) |-> 0]}

(* get_closest: its possible outcomes, one per rounding of exact ties *)
GetClosestRes(pal, tag, q) == {ClosestLoop(pal, tag, q, 1, Inf, 0, fl) : fl \in Roundings(pal, tag)}

(* ---------------- palette state machine ---------------- *)

MaxLen == 2

Names == {"bead"}
EntryColors == {<<0, 0, 0>>, <<255, 0, 0>>}
ClosestQueries == {<<255, 255, 255>>, <<128, 0, 0>>}
DistanceQueries == {<<255, 255, 255>>}
Tags == {"RGB", "yuv", "Hsv", "XYZ"}

NoOp == [op |-> "none", tag |-> "", q |-> <<0, 0, 0>>, idx |-> 0, res |-> None]

PureInit == pa = <<0, 0, 0>> /\ pb = <<0, 0, 0>> /\ pres = None
MainInit == mpc = "start" /\ mPal = [given |-> FALSE, pal |-> <<>>] /\ mTag = "rgb" /\ mImage = <<>> /\ mPos = 0
            /\ mImageWork = FALSE /\ mErr = None

pureVars == <<pa, pb, pres>>
mainVars == <<mpc, mPal, mTag, mImage, mPos, mImageWork, mErr>>
palVars == <<palette, lastOp>>

Init == palette = <<>> /\ lastOp = NoOp /\ PureInit /\ MainInit

(* BeadPalette.add(BeadColor(name, rgb)) *)
Add(name, rgb) ==
  /\ Len(palette) < MaxLen
  /\ palette' = Append(palette, BeadColor(name, rgb))
  /\ lastOp' = [op |-> "add", tag |-> "", q |-> rgb, idx |-> Len(palette) + 1, res |-> None]
  /\ UNCHANGED <<pureVars, mainVars>>

(* palette.palette[i].get_distance(tag, q) *)
GetDistance(i, tag, q) ==
  LET r == GetDistanceRes(palette[i], tag, q)
  IN /\ palette' = [palette EXCEPT ![i] = r.entry]
     /\ lastOp' = [op |-> "get_distance", tag |-> tag, q |-> q, idx |-> i, res |-> r.res]
     /\ UNCHANGED <<pureVars, mainVars>>

(* palette.get_closest(tag, q) *)
GetClosest(tag, q) ==
  \E r \in GetClosestRes(palette, tag, q) :
     /\ palette' = r.pal
     /\ lastOp' = [op |-> "get_closest", tag |-> tag, q |-> q, idx |-> 0, res |-> r.res]
     /\ UNCHANGED <<pureVars, mainVars>>

Next ==
  \/ \E name \in Names, rgb \in EntryColors : Add(name, rgb)
  \/ \E i \in 1..Len(palette), tag \in Tags, q \in DistanceQueries : GetDistance(i, tag, q)
  \/ \E tag \in Tags, q \in ClosestQueries : GetClosest(tag, q)

Spec == Init /\ [][Next]_vars

(* get_closest on palettes of up to MaxClosestLen freshly loaded beads *)
MaxClosestLen == 3

ClosestColors == {<<0, 0, 0>>, <<255, 0, 0>>, <<255, 255, 255>>}
LoadedPalettes ==
  UNION {[1..n -> {BeadColor("bead", c) : c \in ClosestColors}] : n \in 0..MaxClosestLen}

ClosestSpecInit ==
  /\ palette \in LoadedPalettes /\ lastOp = NoOp /\ PureInit /\ MainInit

(* one get_closest call on the loaded palette *)
ClosestQuery ==
  /\ lastOp.op = "none"
  /\ \E tag \in Tags, q \in ClosestQueries : GetClosest(tag, q)

ClosestNext == ClosestQuery

ClosestSpec == ClosestSpecInit /\ [][ClosestNext]_vars

(* ---------------- palette claims ---------------- *)

IsQuery(op) == op \in {"get_closest", "get_distance"}

(* distance of entry j to the last query color under the last tag *)
LastDist(j) == GetDistanceRes(palette[j], lastOp.tag, lastOp.q).res

(* a YUV/HSV near-tie between different colors, whose float order the *)
(* exact distances do not determine                                   *)
FloatTieOpen(j, k) ==
  /\ Upper(lastOp.tag) # "RGB" /\ palette[j].rgb # palette[k].rgb
  /\ NearTie(LastDist(j), LastDist(k))

(* C1: on a non-empty palette and a valid tag, get_closest returns an entry *)
(* at minimum distance, and the earliest one among those at that distance  *)
(* (the float distances: two YUV/HSV distances closer than rounding can    *)
(* tell may compare either way).                                            *)
C1_ClosestIsEarliestMin ==
  (lastOp.op = "get_closest" /\ Len(palette) > 0 /\ ValidTag(lastOp.tag)) =>
    /\ "best" \in DOMAIN lastOp.res
    /\ lastOp.res.best \in 1..Len(palette)
    /\ \A j \in 1..Len(palette) :
         /\ (RatLess(LastDist(j), LastDist(lastOp.res.best)) => FloatTieOpen(j, lastOp.res.best))
         /\ (j < lastOp.res.best =>
               (RatLess(LastDist(lastOp.res.best), LastDist(j)) \/ FloatTieOpen(j, lastOp.res.best)))

C1_Witness ==
  /\ lastOp.op = "get_closest" /\ Len(palette) = 2 /\ ValidTag(lastOp.tag)
  /\ palette[1].rgb = palette[2].rgb
  /\ lastOp.res = [best |-> 1]
  /\ ~RatLess(LastDist(1), LastDist(2)) /\ ~RatLess(LastDist(2), LastDist(1))

(* C2: get_closest on an empty palette raises an explicit empty-palette error *)
(* instead of returning None.                                               *)
EmptyPaletteError == [err |-> "EmptyPalette"]
C2_EmptyPaletteRaises ==
  (lastOp.op = "get_closest" /\ Len(palette) = 0) => lastOp.res = EmptyPaletteError

(* C3: with an unrecognized tag, get_distance and get_closest raise ValueError *)
(* for every palette, the empty one included.                                 *)
C3_InvalidTagRaises ==
  (IsQuery(lastOp.op) /\ ~ValidTag(lastOp.tag)) => lastOp.res = ValueError

(* C9: the yuv/hsv caches are unset or the conversion of the entry's own rgb; *)
(* a query sets a cache only for its own metric, only if it was unset, and    *)
(* sets it on every entry it measures; entries, order, rgb and names are kept. *)
CacheOK ==
  \A i \in 1..Len(palette) :
    /\ palette[i].yuv \in {None, RGB2YUV(palette[i].rgb)}
    /\ palette[i].hsv \in {None, RGB2HSV(palette[i].rgb)}

Measured(i) ==
  /\ ValidTag(lastOp'.tag)
  /\ (lastOp'.op = "get_closest" \/ lastOp'.idx = i)

QueryStepOK ==
  IsQuery(lastOp'.op) =>
    /\ Len(palette') = Len(palette)
    /\ \A i \in 1..Len(palette) :
         /\ palette'[i].rgb = palette[i].rgb
         /\ palette'[i].name = palette[i].name
         /\ palette[i].yuv # None => palette'[i].yuv = palette[i].yuv
         /\ palette[i].hsv # None => palette'[i].hsv = palette[i].hsv
         /\ Upper(lastOp'.tag) # "YUV" => palette'[i].yuv = palette[i].yuv
         /\ Upper(lastOp'.tag) # "HSV" => palette'[i].hsv = palette[i].hsv
         /\ (Upper(lastOp'.tag) = "YUV" /\ Measured(i)) => palette'[i].yuv # None
         /\ (Upper(lastOp'.tag) = "HSV" /\ Measured(i)) => palette'[i].hsv # None

PureComps == {0, 6, 128, 129, 255}
PureColors == {<<r, g, b>> : r \in PureComps, g \in PureComps, b \in PureComps}
              \cup {<<6, 0, 1>>, <<6, 1, 0>>}
Metrics == {"RGB", "YUV", "HSV"}

(* BeadColor("", a).get_distance(m, b) *)
Distance(m, a, b) == GetDistanceRes(BeadColor("", a), m, b).res

PureSpecInit ==
  /\ pa \in PureColors /\ pb \in PureColors /\ pres = None
  /\ palette = <<>> /\ lastOp = NoOp /\ MainInit

(* evaluate the metrics, the hue term and get_textcolor on a and b *)
Compute ==
  /\ pres = None
  /\ pres' = [ab |-> [m \in Metrics |-> Distance(m, pa, pb)],
              aa |-> [m \in Metrics |-> Distance(m, pa, pa)],
              rgbBA |-> Distance("RGB", pb, pa),
              hueNum |-> HueDiffNum(RGB2HSV(pa), RGB2HSV(pb)),
              hueDen |-> HueDiffDen(RGB2HSV(pa), RGB2HSV(pb)),
              text |-> GetTextColor(pa)]
  /\ UNCHANGED <<pa, pb, palVars, mainVars>>

PureNext == Compute

PureSpec == PureSpecInit /\ [][PureNext]_vars

Black == <<0, 0, 0>>
White == <<255, 255, 255>>

(* C5: every metric gives distance 0 from a color to itself. *)
C5_SelfDistanceZero ==
  pres # None => \A m \in Metrics : RatZero(pres.aa[m])

C5_Witness == pres # None /\ pa = <<6, 0, 1>>

(* C6 (as stated): under each metric black-white is at least as far apart *)
(* as any other pair of colors.                                            *)
C6_BlackWhiteMaximal ==
  pres # None => \A m \in Metrics : ~RatLess(Distance(m, Black, White), pres.ab[m])

(* C6 (amended): under the RGB metric no pair is farther apart than black  *)
(* and white, in either argument order.                                     *)
C6_RGBBlackWhiteMaximal ==
  pres # None =>
    /\ ~RatLess(Distance("RGB", Black, White), pres.ab["RGB"])
    /\ ~RatLess(Distance("RGB", White, Black), pres.ab["RGB"])

C6_Witness ==
  /\ pres # None /\ pa = <<255, 0, 0>> /\ pb = <<0, 255, 255>>

(* C7: the hue term is the circular difference min(|dh|, 360-|dh|), so     *)
(* dh/180 lies in [0, 1]; hues 350 and 10 differ by 20 degrees.              *)
C7_CircularHue ==
  pres # None =>
    /\ 0 <= pres.hueNum /\ pres.hueNum <= pres.hueDen
    /\ (pa = <<6, 0, 1>> /\ pb = <<6, 1, 0>>) => pres.hueNum * 9 = pres.hueDen

C7_Witness == pres # None /\ pa = <<6, 0, 1>> /\ pb = <<6, 1, 0>>

(* C8: get_textcolor is black exactly when r + g + b > 384, else white. *)
C8_TextColor ==
  pres # None =>
    /\ (pres.text = "black") = (pa[1] + pa[2] + pa[3] > 384)
    /\ pres.text \in {"black", "white"}
    /\ pa = White => pres.text = "black"
    /\ pa = Black => pres.text = "white"
    /\ pa = <<128, 128, 128>> => pres.text = "white"

C8_Witness == pres # None /\ pa = <<128, 128, 128>>

(* C10 (as stated): the RGB distance is symmetric. *)
C10_RGBSymmetric ==
  pres # None => pres.ab["RGB"] = pres.rgbBA

(* C10 (amended): the RGB distance is symmetric exactly when a.r = b.r or *)
(* |a.r - b.r| = |a.b - b.b|.                                               *)
C10_RGBSymmetricWhen ==
  pres # None =>
    ((pres.ab["RGB"] = pres.rgbBA) = (pa[1] = pb[1] \/ Abs(pa[1] - pb[1]) = Abs(pa[3] - pb[3])))

C10_Witness ==
  pres # None /\ pa[1] # pb[1] /\ pres.ab["RGB"] = pres.rgbBA

(* ---------------- main() ---------------- *)

MaxPixels == 2

MainTags == {"rgb", "Hsv", "XYZ"}
(* palette = None without -p, else the load_color_palette result: an *)
(* empty [Palette] section or one bead                                 *)
NoPalette == [given |-> FALSE, pal |-> <<>>]
MainPalettes == {NoPalette, [given |-> TRUE, pal |-> <<>>],
                 [given |-> TRUE, pal |-> <<BeadColor("black", <<0, 0, 0>>)>>]}
(* RGBA pixels of the input image *)
MainPixels == {[rgb |-> <<255, 0, 0>>, a |-> 255], [rgb |-> <<0, 0, 255>>, a |-> 0]}
MainImages == UNION {[1..n -> MainPixels] : n \in 0..MaxPixels}

MainSpecInit ==
  /\ mpc = "start" /\ mTag \in MainTags /\ mPal \in MainPalettes /\ mImage \in MainImages
  /\ mPos = 0 /\ mImageWork = FALSE /\ mErr = None
  /\ palette = <<>> /\ lastOp = NoOp /\ PureInit

(* argparse and the optional load_color_palette *)
LoadPalette ==
  /\ mpc = "start"
  /\ mpc' = "open"
  /\ UNCHANGED <<mPal, mTag, mImage, mPos, mImageWork, mErr, palVars, pureVars>>

(* Image.open(...).convert('RGBA') and Image.new for the output *)
OpenImage ==
  /\ mpc = "open"
  /\ mpc' = "draw" /\ mImageWork' = TRUE /\ mPos' = 1
  /\ UNCHANGED <<mPal, mTag, mImage, mErr, palVars, pureVars>>

(* the same steps where ImageFont.truetype("arial.ttf", 12) raises OSError *)
(* because the font is not installed                                       *)
FontMissing ==
  /\ mpc = "open"
  /\ mpc' = "error" /\ mImageWork' = TRUE /\ mErr' = [err |-> "OSError"]
  /\ UNCHANGED <<mPal, mTag, mImage, mPos, palVars, pureVars>>

(* one iteration of the pixel loop *)
DrawPixel ==
  /\ mpc = "draw" /\ mPos <= Len(mImage)
  /\ LET px == mImage[mPos] IN
       IF px.a = 0 \/ ~mPal.given
       THEN /\ mPos' = mPos + 1
            /\ UNCHANGED <<mpc, mPal, mErr>>
       ELSE \E r \in GetClosestRes(mPal.pal, mTag, px.rgb) :
            /\ mPal' = [mPal EXCEPT !.pal = r.pal]
            /\ IF r.res = ValueError
               THEN mpc' = "error" /\ mErr' = ValueError /\ UNCHANGED mPos
               ELSE IF r.res = None
                    THEN mpc' = "error" /\ mErr' = [err |-> "AttributeError"] /\ UNCHANGED mPos
                    ELSE mPos' = mPos + 1 /\ UNCHANGED <<mpc, mErr>>
  /\ UNCHANGED <<mTag, mImage, mImageWork, palVars, pureVars>>

(* im_out.save(output_filename) *)
Save ==
  /\ mpc = "draw" /\ mPos > Len(mImage)
  /\ mpc' = "done"
  /\ UNCHANGED <<mPal, mTag, mImage, mPos, mImageWork, mErr, palVars, pureVars>>

MainNext == LoadPalette \/ OpenImage \/ FontMissing \/ DrawPixel \/ Save

MainSpec == MainSpecInit /\ [][MainNext]_vars

(* C4: an unrecognized -c value makes main fail with ValueError before any *)
(* image work begins.                                                      *)
C4_InvalidTagFailsEarly ==
  ~ValidTag(mTag) => (~mImageWork /\ (mpc = "error" => mErr = ValueError))

====
